---- MODULE Spec2Model ----
(***************************************************************************)
(* Model of the Windows launcher, src/dist_tools/launcher.c (release and   *)
(* DEBUG_MODE builds) and src/dist_output/dist_tools/launcher.c (the       *)
(* release-only copy).                                                     *)
(*                                                                         *)
(* C strings are sequences of one-character strings, so that _splitpath,   *)
(* _makepath, sprintf and _putenv are computed character by character.     *)
(* The image paths drawn in Init are short: every sprintf of the program   *)
(* stays inside its MAX_PATH-sized buffer for them.                        *)
(***************************************************************************)
EXTENDS Integers, Sequences, FiniteSets, TLC

\* ------------------------------------------------------------------ bounds
\* user-supplied command-line arguments: 0 .. MaxArgs of them
MaxArgs == 2
\* times the file system may gain or lose the interpreter file during a run
MaxFsChanges == 2
\* GetLastError() codes that a failing CreateProcess may report: 1 .. MaxErrCode
MaxErrCode == 2

\* ------------------------------------------------------- string literals
BS == "\\"
QUOTE == "\""

S_base_env_pythonw ==
    <<"b","a","s","e","_","e","n","v",BS,"p","y","t","h","o","n","w",".","e","x","e">>
S_base_env_python ==
    <<"b","a","s","e","_","e","n","v",BS,"p","y","t","h","o","n",".","e","x","e">>
S_boot_py == <<"b","o","o","t",".","p","y">>
S_PYTHONPATH == <<"P","Y","T","H","O","N","P","A","T","H">>
S_PYTHONPATH_eq == S_PYTHONPATH \o <<"=">>
S_site_packages_semi ==
    <<"s","i","t","e","_","p","a","c","k","a","g","e","s",";">>
S_PATH == <<"P","A","T","H">>

\* ----------------------------------------------------------------- inputs
\* the three builds: launcher.c without and with DEBUG_MODE, and the copy
\* under dist_output
Builds == {"release", "debug", "dist_release"}

\* absolute image paths GetModuleFileName can report
ImagePaths ==
    { <<"C",":",BS,"a","p","p",BS,"r","u","n",".","e","x","e">>,
      <<"C",":",BS,"P"," ","F",BS,"a",BS,"r",".","e","x","e">>,
      <<"D",":",BS,"r",".","e","x","e">>,
      <<"C",":",BS,"a",".","b",BS,"r","u","n">>,
      <<BS,BS,"s",BS,"h",BS,"r",".","e">> }

\* working directories the launcher may be started in
InitDirs == { <<"C",":",BS>>, <<"C",":",BS,"t","m","p",BS>> }

\* values of PYTHONPATH the launcher may inherit
InheritedValues == { <<"V">>, <<"C",":",BS,"o","l","d",";","W">> }

\* inherited environment blocks: PATH is always there, PYTHONPATH may be
InheritedEnvs ==
    { [n \in {S_PATH} |-> <<"C",":",BS,"w">>] }
    \cup { [n \in {S_PATH, S_PYTHONPATH} |->
               IF n = S_PATH THEN <<"C",":",BS,"w">> ELSE v] :
           v \in InheritedValues }

\* user-supplied arguments: ArgSeq(n) is n arguments "x" separated by spaces
RECURSIVE ArgSeq(_)
ArgSeq(n) == IF n = 0 THEN <<>>
             ELSE IF n = 1 THEN <<"x">>
             ELSE ArgSeq(n - 1) \o <<" ", "x">>

\* ------------------------------------------------------------ C run time
IsSlash(c) == c = "/" \/ c = BS

\* index of the last character of s satisfying IsSlash, 0 if none
LastSlash(s) ==
    LET I == { i \in DOMAIN s : IsSlash(s[i]) }
    IN  IF I = {} THEN 0 ELSE CHOOSE i \in I : \A j \in I : j <= i

\* index of the last "." of s, 0 if none
LastDot(s) ==
    LET I == { i \in DOMAIN s : s[i] = "." }
    IN  IF I = {} THEN 0 ELSE CHOOSE i \in I : \A j \in I : j <= i

\* _splitpath(path, drive, dir, fname, ext)
_splitpath(path) ==
    LET hasDrive == Len(path) >= 2 /\ path[2] = ":"
        drv  == IF hasDrive THEN SubSeq(path, 1, 2) ELSE <<>>
        rest == IF hasDrive THEN SubSeq(path, 3, Len(path)) ELSE path
        ls   == LastSlash(rest)
        d    == SubSeq(rest, 1, ls)
        file == SubSeq(rest, ls + 1, Len(rest))
        dot  == LastDot(file)
    IN  [drive |-> drv,
         dir   |-> d,
         fname |-> IF dot = 0 THEN file ELSE SubSeq(file, 1, dot - 1),
         ext   |-> IF dot = 0 THEN <<>> ELSE SubSeq(file, dot, Len(file))]

\* faulty variant of _makepath: the drive is left out
_makepath_no_drive(drv, d) ==
    IF d = <<>> THEN <<>>
    ELSE IF IsSlash(d[Len(d)]) THEN d
    ELSE d \o <<BS>>

\* _makepath(cwd, drive, dir, NULL, NULL)
_makepath(drv, d) ==
    (IF drv # <<>> THEN <<drv[1], ":">> ELSE <<>>)
    \o (IF d = <<>> THEN <<>>
        ELSE IF IsSlash(d[Len(d)]) THEN d
        ELSE d \o <<BS>>)

\* index of the first character c of s, 0 if none
FirstOf(s, c) ==
    LET I == { i \in DOMAIN s : s[i] = c }
    IN  IF I = {} THEN 0 ELSE CHOOSE i \in I : \A j \in I : i <= j

FirstEq(s) == FirstOf(s, "=")

\* faulty variant of _putenv: a variable that is already set keeps its value
\* and the new one is appended after a ";"
_putenv_append(e, envstring) ==
    LET i    == FirstEq(envstring)
        name == SubSeq(envstring, 1, i - 1)
        val  == SubSeq(envstring, i + 1, Len(envstring))
    IN  IF i <= 1 THEN e
        ELSE [n \in DOMAIN e \cup {name} |->
                 IF n # name THEN e[n]
                 ELSE IF name \in DOMAIN e THEN val \o <<";">> \o e[n]
                 ELSE val]

\* _putenv(envstring) on the environment block e: NAME=value sets NAME,
\* NAME= removes it, a string without "=" changes nothing
_putenv(e, envstring) ==
    LET i    == FirstEq(envstring)
        name == SubSeq(envstring, 1, i - 1)
        val  == SubSeq(envstring, i + 1, Len(envstring))
    IN  IF i <= 1 THEN e
        ELSE IF val = <<>> THEN [n \in DOMAIN e \ {name} |-> e[n]]
        ELSE [n \in DOMAIN e \cup {name} |-> IF n = name THEN val ELSE e[n]]


\* first argument of a command line, as CreateProcess with a NULL
\* application name takes it: the text between the leading quotes, or up to
\* the first space when the command line is not quoted
UpTo(s, c) == IF FirstOf(s, c) = 0 THEN s
              ELSE SubSeq(s, 1, FirstOf(s, c) - 1)

ModuleOfCmdLine(cl) ==
    IF cl # <<>> /\ Head(cl) = QUOTE THEN UpTo(Tail(cl), QUOTE)
    ELSE UpTo(cl, " ")

\* ------------------------------------------------------------------ state
VARIABLES
    build,        \* which build runs
    image,        \* path of the running image, as the OS knows it
    lpCmdLine,    \* the arguments the user supplied
    initDir,      \* working directory at process start
    initEnv,      \* environment block at process start
    files,        \* interpreter files present on disk
    fsChanges,    \* number of changes of the file system so far
    pc,           \* position of the launcher in WinMain / main
    exePath, drive, dir, fname, ext, cwd,
    pythonPath, bootScript, pythonEnv, cmdLine,
    attrs,        \* last result of GetFileAttributes: "unknown", "found", "invalid"
    curDir,       \* working directory of the launcher process
    env,          \* environment block of the launcher process
    hProcess,     \* pi.hProcess: "none", "open", "closed"
    hThread,      \* pi.hThread:  "none", "open", "closed"
    childState,   \* "none", "running", "exited"
    childCmd, childEnv, childDir, childFlags,
    childStatus,  \* exit status of the child, -1 while it has none
    messages,     \* what the user has been shown, in order
    failure,      \* the error kind of the run, "none" if none
    exitCode,     \* exit code of the launcher, -1 while it runs
    trace         \* OS and C run-time calls made so far, in order

inputs  == <<build, image, lpCmdLine, initDir, initEnv>>
locals  == <<exePath, drive, dir, fname, ext, cwd, pythonPath, bootScript,
             pythonEnv, cmdLine, attrs>>
childv  == <<childState, childCmd, childEnv, childDir, childFlags, childStatus>>
handles == <<hProcess, hThread>>
vars    == <<inputs, files, fsChanges, pc, locals, curDir, env, handles,
             childv, messages, failure, exitCode, trace>>

DebugMode == build = "debug"

\* the interpreter binary of the build
InterpreterName == IF DebugMode THEN S_base_env_python ELSE S_base_env_pythonw

\* the part of a path up to and including its last separator
DirPortion(p) == SubSeq(p, 1, LastSlash(p))

\* the interpreter files a run started from image img may look at
InterpreterFiles(img) ==
    { DirPortion(img) \o S_base_env_python,
      DirPortion(img) \o S_base_env_pythonw }

Init ==
    /\ build \in Builds
    /\ image \in ImagePaths
    /\ \E n \in 0..MaxArgs : lpCmdLine = ArgSeq(n)
    /\ initDir \in InitDirs
    /\ initEnv \in InheritedEnvs
    /\ files \in SUBSET InterpreterFiles(image)
    /\ fsChanges = 0
    /\ pc = "start"
    /\ exePath = <<>> /\ drive = <<>> /\ dir = <<>> /\ fname = <<>>
    /\ ext = <<>> /\ cwd = <<>> /\ pythonPath = <<>> /\ bootScript = <<>>
    /\ pythonEnv = <<>> /\ cmdLine = <<>>
    /\ attrs = "unknown"
    /\ curDir = initDir
    /\ env = initEnv
    /\ hProcess = "none" /\ hThread = "none"
    /\ childState = "none" /\ childCmd = <<>> /\ childEnv = initEnv
    /\ childDir = <<>> /\ childFlags = "none" /\ childStatus = -1
    /\ messages = <<>>
    /\ failure = "none"
    /\ exitCode = -1
    /\ trace = <<>>

\* ----------------------------------------------------- error reporting
\* MessageBox(NULL, msg, "Error", MB_OK | MB_ICONERROR) in the release
\* builds, printf of the message and system("pause") under DEBUG_MODE
ErrorMessage(text, path, code) ==
    [channel |-> IF DebugMode THEN "stdout" ELSE "dialog",
     pause   |-> DebugMode,
     text    |-> text,
     path    |-> path,
     code    |-> code]

\* faulty variant of Fail: the message is shown twice
Fail_twice(kind, text, path, code) ==
    /\ messages' = messages \o << ErrorMessage(text, path, code),
                                  ErrorMessage(text, path, code) >>
    /\ failure' = kind
    /\ pc' = "report"

\* a failing stage: show the message, remember the kind, go on to `return 1'
Fail(kind, text, path, code) ==
    /\ messages' = Append(messages, ErrorMessage(text, path, code))
    /\ failure' = kind
    /\ pc' = "report"

\* one more call in the history
Called(name, ok) == trace' = Append(trace, [call |-> name, ok |-> ok])

\* ------------------------------------------------------------- the stages
\* GetModuleFileName(NULL, exePath, MAX_PATH)
SelfLocation ==
    /\ pc = "start"
    /\ \E ok \in BOOLEAN :
         /\ Called("GetModuleFileName", ok)
         /\ IF ok
            THEN /\ exePath' = image
                 /\ pc' = "split"
                 /\ UNCHANGED <<messages, failure>>
            ELSE /\ Fail("SelfLocationFailed",
                         "Failed to get executable path.", <<>>, 0)
                 /\ UNCHANGED exePath
    /\ UNCHANGED <<inputs, files, fsChanges, drive, dir, fname, ext, cwd,
                   pythonPath, bootScript, pythonEnv, cmdLine, attrs,
                   curDir, env, handles, childv, exitCode>>

\* _splitpath(exePath, drive, dir, fname, ext); _makepath(cwd, drive, dir, NULL, NULL)
SplitPath ==
    /\ pc = "split"
    /\ LET parts == _splitpath(exePath)
       IN  /\ drive' = parts.drive
           /\ dir'   = parts.dir
           /\ fname' = parts.fname
           /\ ext'   = parts.ext
           /\ cwd'   = _makepath(parts.drive, parts.dir)
    /\ pc' = "chdir"
    /\ UNCHANGED <<inputs, files, fsChanges, exePath, pythonPath, bootScript,
                   pythonEnv, cmdLine, attrs, curDir, env, handles, childv,
                   messages, failure, exitCode, trace>>

\* faulty variant of PinWorkingDirectory: the failure branch lacks its return
PinWorkingDirectory_no_return ==
    /\ pc = "chdir"
    /\ \E ok \in BOOLEAN :
         /\ Called("SetCurrentDirectory", ok)
         /\ IF ok
            THEN /\ curDir' = cwd
                 /\ UNCHANGED <<messages, failure>>
            ELSE /\ messages' = Append(messages,
                        ErrorMessage("Failed to set current directory.", <<>>, 0))
                 /\ failure' = "WorkingDirFailed"
                 /\ UNCHANGED curDir
    /\ pc' = "compose"
    /\ UNCHANGED <<inputs, files, fsChanges, locals, env, handles, childv,
                   exitCode>>

\* SetCurrentDirectory(cwd)
PinWorkingDirectory ==
    /\ pc = "chdir"
    /\ \E ok \in BOOLEAN :
         /\ Called("SetCurrentDirectory", ok)
         /\ IF ok
            THEN /\ curDir' = cwd
                 /\ pc' = "compose"
                 /\ UNCHANGED <<messages, failure>>
            ELSE /\ Fail("WorkingDirFailed",
                         "Failed to set current directory.", <<>>, 0)
                 /\ UNCHANGED curDir
    /\ UNCHANGED <<inputs, files, fsChanges, locals, env, handles, childv,
                   exitCode>>

\* sprintf(pythonPath, "%sbase_env\\python[w].exe", cwd)
PythonPathOf(c) == c \o InterpreterName

\* sprintf(bootScript, "%sboot.py", cwd)
BootScriptOf(c) == c \o S_boot_py

ComposePaths ==
    /\ pc = "compose"
    /\ pythonPath' = PythonPathOf(cwd)
    /\ bootScript' = BootScriptOf(cwd)
    /\ pc' = "check"
    /\ UNCHANGED <<inputs, files, fsChanges, exePath, drive, dir, fname, ext,
                   cwd, pythonEnv, cmdLine, attrs, curDir, env, handles,
                   childv, messages, failure, exitCode, trace>>

\* GetFileAttributes(path) on the file system fs
GetFileAttributes(fs, path) == IF path \in fs THEN "found" ELSE "invalid"

\* faulty variant of CheckInterpreter: the result of the query is not acted on
CheckInterpreter_ignored ==
    /\ pc = "check"
    /\ attrs' = GetFileAttributes(files, pythonPath)
    /\ Called("GetFileAttributes", GetFileAttributes(files, pythonPath) = "found")
    /\ pc' = "putenv"
    /\ UNCHANGED <<inputs, files, fsChanges, exePath, drive, dir, fname, ext,
                   cwd, pythonPath, bootScript, pythonEnv, cmdLine, curDir,
                   env, handles, childv, messages, failure, exitCode>>

\* if (GetFileAttributes(pythonPath) == INVALID_FILE_ATTRIBUTES) ...
CheckInterpreter ==
    /\ pc = "check"
    /\ LET a == GetFileAttributes(files, pythonPath)
       IN  /\ attrs' = a
           /\ Called("GetFileAttributes", a = "found")
           /\ IF a = "invalid"
              THEN Fail("InterpreterMissing",
                        "Python environment not found at:", pythonPath, 0)
              ELSE /\ pc' = "putenv"
                   /\ UNCHANGED <<messages, failure>>
    /\ UNCHANGED <<inputs, files, fsChanges, exePath, drive, dir, fname, ext,
                   cwd, pythonPath, bootScript, pythonEnv, cmdLine, curDir,
                   env, handles, childv, exitCode>>

\* sprintf(pythonEnv, "PYTHONPATH=%ssite_packages;%s", cwd, cwd)
PythonEnvOf(c) == S_PYTHONPATH_eq \o c \o S_site_packages_semi \o c

\* faulty variant of PrepareEnvironment: the variable is installed twice
PrepareEnvironment_twice ==
    /\ pc = "putenv"
    /\ pythonEnv' = PythonEnvOf(cwd)
    /\ env' = _putenv(_putenv(env, PythonEnvOf(cwd)), PythonEnvOf(cwd))
    /\ trace' = trace \o << [call |-> "_putenv", ok |-> TRUE],
                            [call |-> "_putenv", ok |-> TRUE] >>
    /\ pc' = "cmdline"
    /\ UNCHANGED <<inputs, files, fsChanges, exePath, drive, dir, fname, ext,
                   cwd, pythonPath, bootScript, cmdLine, attrs, curDir,
                   handles, childv, messages, failure, exitCode>>

\* sprintf(pythonEnv, ...); _putenv(pythonEnv)
PrepareEnvironment ==
    /\ pc = "putenv"
    /\ pythonEnv' = PythonEnvOf(cwd)
    /\ env' = _putenv(env, PythonEnvOf(cwd))
    /\ Called("_putenv", TRUE)
    /\ pc' = "cmdline"
    /\ UNCHANGED <<inputs, files, fsChanges, exePath, drive, dir, fname, ext,
                   cwd, pythonPath, bootScript, cmdLine, attrs, curDir,
                   handles, childv, messages, failure, exitCode>>

\* faulty variant of CmdLineOf: the user's arguments are passed on
CmdLineOf_forward_args(py, boot) ==
    <<QUOTE>> \o py \o <<QUOTE, " ", QUOTE>> \o boot \o <<QUOTE>>
    \o (IF lpCmdLine = <<>> THEN <<>> ELSE <<" ">> \o lpCmdLine)

\* sprintf(cmdLine, "\"%s\" \"%s\"", pythonPath, bootScript)
CmdLineOf(py, boot) ==
    <<QUOTE>> \o py \o <<QUOTE, " ", QUOTE>> \o boot \o <<QUOTE>>

BuildCmdLine ==
    /\ pc = "cmdline"
    /\ cmdLine' = CmdLineOf(pythonPath, bootScript)
    /\ pc' = "create"
    /\ UNCHANGED <<inputs, files, fsChanges, exePath, drive, dir, fname, ext,
                   cwd, pythonPath, bootScript, pythonEnv, attrs, curDir, env,
                   handles, childv, messages, failure, exitCode, trace>>

\* DWORD creationFlags
CreationFlags == IF DebugMode THEN "0" ELSE "CREATE_NO_WINDOW"

\* CreateProcess(NULL, cmdLine, NULL, NULL, FALSE, creationFlags, NULL, NULL,
\* &si, &pi): it can succeed only if the module named by the command line
\* is on disk, and it can fail for any reason the OS has
SpawnChild ==
    /\ pc = "create"
    /\ \E ok \in BOOLEAN :
         /\ ok => ModuleOfCmdLine(cmdLine) \in files
         /\ Called("CreateProcess", ok)
         /\ IF ok
            THEN /\ childState' = "running"
                 /\ childCmd'   = cmdLine
                 /\ childEnv'   = env
                 /\ childDir'   = curDir
                 /\ childFlags' = CreationFlags
                 /\ hProcess'   = "open"
                 /\ hThread'    = "open"
                 /\ pc' = "spawned"
                 /\ UNCHANGED <<messages, failure, childStatus>>
            ELSE /\ \E code \in 1..MaxErrCode :
                      Fail("SpawnFailed", "Failed to launch process.",
                           <<>>, code)
                 /\ UNCHANGED <<handles, childv>>
    /\ UNCHANGED <<inputs, files, fsChanges, locals, curDir, env, exitCode>>

\* faulty variant of WaitForChild: the wait returns at once
WaitForChild_no_wait ==
    /\ pc = "spawned"
    /\ DebugMode
    /\ pc' = "closethread"
    /\ Called("WaitForSingleObject", TRUE)
    /\ UNCHANGED <<inputs, files, fsChanges, locals, curDir, env, handles,
                   childv, messages, failure, exitCode>>

\* DEBUG_MODE: WaitForSingleObject(pi.hProcess, INFINITE) returns once the
\* child has exited
WaitForChild ==
    /\ pc = "spawned"
    /\ DebugMode
    /\ childState = "exited"
    /\ pc' = "closethread"
    /\ Called("WaitForSingleObject", TRUE)
    /\ UNCHANGED <<inputs, files, fsChanges, locals, curDir, env, handles,
                   childv, messages, failure, exitCode>>

\* release: CloseHandle(pi.hProcess)
CloseProcessHandle ==
    /\ pc = "spawned"
    /\ ~DebugMode
    /\ hProcess' = "closed"
    /\ pc' = "closethread"
    /\ Called("CloseHandle", TRUE)
    /\ UNCHANGED <<inputs, files, fsChanges, locals, curDir, env, hThread,
                   childv, messages, failure, exitCode>>

\* faulty variant of CloseThreadHandle: the handle is left open
CloseThreadHandle_skipped ==
    /\ pc = "closethread"
    /\ pc' = "return"
    /\ UNCHANGED <<inputs, files, fsChanges, locals, curDir, env, handles,
                   childv, messages, failure, exitCode, trace>>

\* CloseHandle(pi.hThread)
CloseThreadHandle ==
    /\ pc = "closethread"
    /\ hThread' = "closed"
    /\ pc' = "return"
    /\ Called("CloseHandle", TRUE)
    /\ UNCHANGED <<inputs, files, fsChanges, locals, curDir, env, hProcess,
                   childv, messages, failure, exitCode>>

\* faulty variant of ReturnSuccess: the child's exit status is passed on
ReturnSuccess_child_status ==
    /\ pc = "return"
    /\ exitCode' = IF childStatus >= 0 THEN childStatus ELSE 0
    /\ pc' = "done"
    /\ UNCHANGED <<inputs, files, fsChanges, locals, curDir, env, handles,
                   childv, messages, failure, trace>>

\* return 0
ReturnSuccess ==
    /\ pc = "return"
    /\ exitCode' = 0
    /\ pc' = "done"
    /\ UNCHANGED <<inputs, files, fsChanges, locals, curDir, env, handles,
                   childv, messages, failure, trace>>

\* return 1, once the user has dismissed the dialog (release) or pressed a
\* key (DEBUG_MODE)
ReturnFailure ==
    /\ pc = "report"
    /\ exitCode' = 1
    /\ pc' = "done"
    /\ UNCHANGED <<inputs, files, fsChanges, locals, curDir, env, handles,
                   childv, messages, failure, trace>>

\* ------------------------------------------------------- the environment
\* the child runs on its own and may exit with any status, or never
ChildExit ==
    /\ childState = "running"
    /\ childState' = "exited"
    /\ \E st \in {0, 1} : childStatus' = st
    /\ UNCHANGED <<inputs, files, fsChanges, pc, locals, curDir, env, handles,
                   childCmd, childEnv, childDir, childFlags, messages,
                   failure, exitCode, trace>>

\* somebody else removes or installs an interpreter file
FsChange ==
    /\ fsChanges < MaxFsChanges
    /\ pc # "done"
    /\ \E f \in InterpreterFiles(image) :
         files' = IF f \in files THEN files \ {f} ELSE files \cup {f}
    /\ fsChanges' = fsChanges + 1
    /\ UNCHANGED <<inputs, pc, locals, curDir, env, handles, childv, messages,
                   failure, exitCode, trace>>

\* the stages up to and including CreateProcess
Stages ==
    \/ SelfLocation
    \/ SplitPath
    \/ PinWorkingDirectory
    \/ ComposePaths
    \/ CheckInterpreter
    \/ PrepareEnvironment
    \/ BuildCmdLine
    \/ SpawnChild

\* what the launcher does once CreateProcess has succeeded
AfterSpawn ==
    \/ WaitForChild
    \/ CloseProcessHandle
    \/ CloseThreadHandle
    \/ ReturnSuccess

Next ==
    \/ Stages
    \/ AfterSpawn
    \/ ReturnFailure
    \/ ChildExit
    \/ FsChange

Spec == Init /\ [][Next]_vars

\* the launcher is one sequential thread that the OS keeps scheduling: once
\* CreateProcess has returned, the statements after it are executed as soon
\* as they can be. The child, the user and the rest of the system owe
\* nothing.
FairSpec == Spec /\ WF_vars(AfterSpawn)

\* ------------------------------------------------------------ properties
\* the calls of name n in the history
CallsOf(n) == { i \in DOMAIN trace : trace[i].call = n }
Attempted(n) == CallsOf(n) # {}
Succeeded(n) == \E i \in CallsOf(n) : trace[i].ok

ErrorKinds ==
    {"SelfLocationFailed", "WorkingDirFailed", "InterpreterMissing", "SpawnFailed"}

\* the base directory and what is derived from it, read off the image path
BaseDirectory == DirPortion(image)
ExpectedInterpreter ==
    BaseDirectory \o (IF build = "debug" THEN S_base_env_python
                                         ELSE S_base_env_pythonw)
ExpectedSearchPath == BaseDirectory \o S_site_packages_semi \o BaseDirectory
ExpectedCmdLine ==
    <<QUOTE>> \o ExpectedInterpreter \o <<QUOTE>> \o <<" ">>
    \o <<QUOTE>> \o BaseDirectory \o S_boot_py \o <<QUOTE>>

\* C1: in every build the launcher exits with 0 exactly when CreateProcess
\* succeeded and with 1 exactly when one of the four failures occurred,
\* whatever the child does afterwards.
C1_ExitCode ==
    pc = "done" =>
        /\ exitCode \in {0, 1}
        /\ (exitCode = 0) <=> Succeeded("CreateProcess")
        /\ (exitCode = 1) <=> failure \in ErrorKinds
        /\ (exitCode = 1) <=> \E i \in DOMAIN trace : ~trace[i].ok

C1_Witness ==
    /\ pc = "done" /\ exitCode = 0
    /\ childState = "exited" /\ childStatus = 1

\* C2: CreateProcess is attempted only after GetFileAttributes has reported
\* the interpreter present; when it reports it absent the launcher exits 1
\* and no child is ever created.
C2_CheckedBeforeSpawn ==
    /\ Attempted("CreateProcess") =>
           /\ attrs = "found"
           /\ \E i \in CallsOf("GetFileAttributes") :
                 /\ trace[i].ok
                 /\ \A j \in CallsOf("CreateProcess") : i < j
    /\ attrs = "invalid" =>
           /\ ~Attempted("CreateProcess")
           /\ childState = "none"
           /\ pc \in {"report", "done"}
           /\ pc = "done" => exitCode = 1

C2_Witness ==
    /\ pc = "done" /\ attrs = "invalid" /\ exitCode = 1
    /\ fsChanges > 0 /\ ExpectedInterpreter \in files

\* C3: whenever a child is created, PYTHONPATH of the launcher is exactly
\* <base>site_packages;<base> at that moment, whatever value was inherited,
\* and the child gets that value.
C3_SearchPath ==
    /\ pc = "create" =>
           /\ S_PYTHONPATH \in DOMAIN env
           /\ env[S_PYTHONPATH] = ExpectedSearchPath
    /\ childState # "none" =>
           /\ S_PYTHONPATH \in DOMAIN childEnv
           /\ childEnv[S_PYTHONPATH] = ExpectedSearchPath
           /\ childEnv = env

C3_Witness ==
    /\ childState = "running"
    /\ S_PYTHONPATH \in DOMAIN initEnv
    /\ initEnv[S_PYTHONPATH] # ExpectedSearchPath
    /\ childEnv[S_PYTHONPATH] = ExpectedSearchPath

\* the message and the failing call that belong to an error kind
StemOf(kind) ==
    CASE kind = "SelfLocationFailed" -> "Failed to get executable path."
      [] kind = "WorkingDirFailed"   -> "Failed to set current directory."
      [] kind = "InterpreterMissing" -> "Python environment not found at:"
      [] kind = "SpawnFailed"        -> "Failed to launch process."
      [] OTHER                       -> "?"
StageOf(kind) ==
    CASE kind = "SelfLocationFailed" -> "GetModuleFileName"
      [] kind = "WorkingDirFailed"   -> "SetCurrentDirectory"
      [] kind = "InterpreterMissing" -> "GetFileAttributes"
      [] kind = "SpawnFailed"        -> "CreateProcess"
      [] OTHER                       -> "?"

\* C4: a run that exits 1 has shown exactly one message, that of the first
\* stage that failed, as a dialog in the release builds and as a printed
\* line with a pause under DEBUG_MODE; a run that exits 0 has shown none.
C4_OneMessage ==
    /\ Len(messages) <= 1
    /\ pc = "done" /\ exitCode = 0 => messages = <<>>
    /\ pc = "done" /\ exitCode = 1 =>
           /\ Len(messages) = 1
           /\ messages[1].text = StemOf(failure)
           /\ messages[1].channel = (IF build = "debug" THEN "stdout" ELSE "dialog")
           /\ messages[1].pause = (build = "debug")
           /\ trace[Len(trace)] = [call |-> StageOf(failure), ok |-> FALSE]
           /\ \A i \in 1..(Len(trace) - 1) : trace[i].ok

C4_Witness ==
    /\ pc = "done" /\ exitCode = 1 /\ build = "debug"
    /\ failure = "SpawnFailed"
    /\ Len(messages) = 1 /\ messages[1].code = MaxErrCode

\* C5: at exit after a successful spawn the thread handle is closed, and in
\* the release builds the process handle too; on a failing exit no child
\* handle was ever obtained.
C5_Handles ==
    pc = "done" =>
        /\ exitCode = 0 =>
               /\ hThread = "closed"
               /\ build # "debug" => hProcess = "closed"
        /\ exitCode = 1 => hProcess = "none" /\ hThread = "none"

C5_Witness ==
    /\ pc = "done" /\ exitCode = 0 /\ build = "debug"
    /\ hThread = "closed" /\ hProcess = "open"

\* C6: the command line given to CreateProcess is exactly
\* "<base>base_env\<interpreter>" "<base>boot.py", with pythonw.exe in the
\* release builds and python.exe under DEBUG_MODE, whatever arguments the
\* user supplied.
C6_CmdLine ==
    /\ pc = "create" => cmdLine = ExpectedCmdLine
    /\ Attempted("CreateProcess") => cmdLine = ExpectedCmdLine
    /\ childState # "none" => childCmd = ExpectedCmdLine

C6_Witness ==
    /\ childState = "running"
    /\ Len(lpCmdLine) > 1
    /\ \E i \in DOMAIN image : image[i] = " "
    /\ childCmd = ExpectedCmdLine

\* C7: once SetCurrentDirectory has succeeded the working directory is the
\* base directory (drive and directory of the image path) and stays so until
\* exit, so a child created later starts there.
C7_PinnedDirectory ==
    /\ Succeeded("SetCurrentDirectory") => curDir = BaseDirectory
    /\ childState # "none" => childDir = BaseDirectory

C7_Witness ==
    /\ pc = "done" /\ childState # "none"
    /\ initDir # BaseDirectory
    /\ curDir = BaseDirectory /\ childDir = BaseDirectory

\* C8: under DEBUG_MODE the launcher does not exit after a successful spawn
\* before the child has exited, and then exits 0 whatever the child's
\* status; the release builds never wait for the child and reach exit after
\* a successful spawn even if the child never exits.
C8_WaitOnlyInDebug ==
    /\ [](build = "debug" /\ pc = "done" /\ childState # "none" =>
              /\ childState = "exited"
              /\ exitCode = 0
              /\ Succeeded("WaitForSingleObject"))
    /\ [](build # "debug" => ~Attempted("WaitForSingleObject"))
    /\ (build # "debug" /\ pc = "spawned") ~> (pc = "done" /\ exitCode = 0)

C8_Witness ==
    /\ build # "debug"
    /\ pc = "done" /\ exitCode = 0
    /\ childState = "running"

\* the five stages, by the call each one makes
StageOrder ==
    << "GetModuleFileName", "SetCurrentDirectory", "GetFileAttributes",
       "_putenv", "CreateProcess" >>
IsStageCall(e) == \E k \in DOMAIN StageOrder : StageOrder[k] = e.call
StageCalls == SelectSeq(trace, IsStageCall)

\* C9: the stages run in the order self-location, working-directory pin,
\* existence check, environment assignment, spawn, and nothing follows a
\* failed stage: after a failed self-location the working directory is
\* unchanged, after a failed pin or existence check PYTHONPATH (the whole
\* environment) is as inherited, and in all three cases there is no child.
C9_OrderAndAbort ==
    /\ Len(StageCalls) <= Len(StageOrder)
    /\ \A i \in DOMAIN StageCalls : StageCalls[i].call = StageOrder[i]
    /\ \A i \in DOMAIN trace : ~trace[i].ok => i = Len(trace)
    /\ failure # "none" =>
           /\ pc \in {"report", "done"}
           /\ trace[Len(trace)] = [call |-> StageOf(failure), ok |-> FALSE]
    /\ failure = "SelfLocationFailed" => curDir = initDir /\ env = initEnv
    /\ failure \in {"WorkingDirFailed", "InterpreterMissing"} => env = initEnv
    /\ failure \in {"SelfLocationFailed", "WorkingDirFailed", "InterpreterMissing"} =>
           /\ childState = "none"
           /\ ~Attempted("CreateProcess")

C9_Witness ==
    /\ pc = "done" /\ failure = "InterpreterMissing"
    /\ S_PYTHONPATH \in DOMAIN initEnv
    /\ env = initEnv
    /\ curDir = BaseDirectory /\ curDir # initDir

\* how often the environment block was mutated and the working directory set
EnvMutations == Cardinality(CallsOf("_putenv"))
DirSets == Cardinality({ i \in CallsOf("SetCurrentDirectory") : trace[i].ok })

\* C10 as stated: a run mutates the environment block exactly once and sets
\* the working directory exactly once.
C10_ExactlyOnce ==
    pc = "done" => EnvMutations = 1 /\ DirSets = 1

\* C10, amended: a run mutates the environment block at most once and sets
\* the working directory at most once; each happens exactly once in every
\* run that reaches process creation.
C10_AtMostOnce ==
    /\ EnvMutations <= 1
    /\ DirSets <= 1
    /\ Attempted("CreateProcess") => EnvMutations = 1 /\ DirSets = 1
    /\ pc = "done" /\ exitCode = 0 => EnvMutations = 1 /\ DirSets = 1

C10_Witness ==
    /\ pc = "done" /\ exitCode = 0
    /\ EnvMutations = 1 /\ DirSets = 1
    /\ env # initEnv /\ curDir # initDir

====
